---- MODULE Spec2Model ----
(***************************************************************************)
(* A model of the `references` demonstration (src/main.rs).                *)
(*                                                                         *)
(* The program is kept as data (one record per statement, in textual       *)
(* order) and executed by a small-step machine over                        *)
(*   - a call stack of frames, each with its local slots,                  *)
(*   - a heap of byte blocks handed out by the allocator,                  *)
(*   - the standard output stream behind its line buffer.                  *)
(* A `String` is the triple (ptr, len, cap) stored in its owner's slot;    *)
(* a reference is a value naming the slot it points to.  The live range of *)
(* a reference is computed from the program text (creation to last use).   *)
(***************************************************************************)
EXTENDS Integers, Sequences, FiniteSets, TLC

(***************************************************************************)
(* Bounds                                                                  *)
(***************************************************************************)
\* number of heap blocks the allocator can hand out
HeapSize == 6
\* longest input text tried on calculate_length and change
MaxLen == 2

(***************************************************************************)
(* Text: characters, UTF-8, decimal formatting                             *)
(***************************************************************************)
Max(S) == CHOOSE x \in S : \A y \in S : y <= x

\* Unicode scalar value of each character that occurs in a literal of
\* main.rs, plus two non-ASCII characters used as inputs.
CodePoint(c) ==
    CASE c = "\n" -> 10  [] c = " " -> 32   [] c = "!" -> 33  [] c = "'" -> 39
      [] c = "," -> 44   [] c = "1" -> 49   [] c = "2" -> 50  [] c = "3" -> 51
      [] c = "5" -> 53   [] c = "=" -> 61   [] c = "H" -> 72   [] c = "T" -> 84  [] c = "W" -> 87
      [] c = "_" -> 95   [] c = "a" -> 97   [] c = "c" -> 99  [] c = "d" -> 100
      [] c = "e" -> 101  [] c = "f" -> 102  [] c = "g" -> 103 [] c = "h" -> 104
      [] c = "i" -> 105  [] c = "l" -> 108  [] c = "m" -> 109 [] c = "n" -> 110
      [] c = "o" -> 111  [] c = "r" -> 114  [] c = "s" -> 115 [] c = "t" -> 116
      [] c = "w" -> 119  [] c = "é" -> 233  [] c = "€" -> 8364

\* UTF-8 encoding of one scalar value (a `str` is stored UTF-8 encoded)
Utf8(cp) ==
    IF cp < 128 THEN <<cp>>
    ELSE IF cp < 2048 THEN <<192 + (cp \div 64), 128 + (cp % 64)>>
    ELSE IF cp < 65536
         THEN <<224 + (cp \div 4096), 128 + ((cp \div 64) % 64), 128 + (cp % 64)>>
         ELSE <<240 + (cp \div 262144), 128 + ((cp \div 4096) % 64),
                128 + ((cp \div 64) % 64), 128 + (cp % 64)>>

\* the bytes of a string literal given as its sequence of characters
RECURSIVE Utf8Str(_)
Utf8Str(chars) ==
    IF chars = <<>> THEN <<>>
    ELSE Utf8(CodePoint(Head(chars))) \o Utf8Str(Tail(chars))

\* number of characters of UTF-8 text: the bytes that are not continuation
\* bytes (10xxxxxx)
CharCount(bytes) ==
    Cardinality({i \in 1..Len(bytes) : bytes[i] \div 64 # 2})

\* `{}` applied to an unsigned integer: its decimal digits, in ASCII
RECURSIVE Decimal(_)
Decimal(n) ==
    IF n < 10 THEN <<48 + n>>
    ELSE Decimal(n \div 10) \o <<48 + (n % 10)>>

(***************************************************************************)
(* The program text                                                        *)
(***************************************************************************)
\* operands: a literal, or a name looked up among the bindings in scope
Lit(chars) == [k |-> "lit", v |-> chars]
Arg(name)  == [k |-> "arg", v |-> name]
NoOperand  == [k |-> "none", v |-> <<>>]

\* statement forms; every statement carries the source line it stands for
Stmt(line, op, dst, fn, mut, src, fmt) ==
    [line |-> line, op |-> op, dst |-> dst, fn |-> fn, mut |-> mut,
     src |-> src, fmt |-> fmt]
\* println!(fmt...): fmt is the sequence of literal pieces and `{}` arguments
Println(line, fmt)           == Stmt(line, "println", "", "", FALSE, NoOperand, fmt)
\* let dst = String::from(text);
LetFrom(line, dst, text)     == Stmt(line, "let_from", dst, "", FALSE, text, <<>>)
\* let dst = &src;  /  let dst = &mut src;
LetRef(line, dst, mut, name) == Stmt(line, "let_ref", dst, "", mut, Arg(name), <<>>)
\* let dst = fn(&src);  /  fn(&mut src);  /  let dst = fn();
Call(line, dst, fn, mut, src) == Stmt(line, "call", dst, fn, mut, src, <<>>)
\* { and }
BlockOpen(line)              == Stmt(line, "open", "", "", FALSE, NoOperand, <<>>)
BlockClose(line)             == Stmt(line, "close", "", "", FALSE, NoOperand, <<>>)
\* tail expression  name.len()
TailLen(line, name)          == Stmt(line, "tail_len", "", "", FALSE, Arg(name), <<>>)
\* name.push_str(text);
PushStr(line, name, text)    == Stmt(line, "push_str", "", "", TRUE, Arg(name), <<text>>)
\* tail expression  name   (the value is moved out to the caller)
TailMove(line, name)         == Stmt(line, "tail_move", "", "", FALSE, Arg(name), <<>>)
\* tail expression  &name  (a reference to a local is returned)
TailRef(line, name)          == Stmt(line, "tail_ref", "", "", FALSE, Arg(name), <<>>)

Hello == <<"H", "e", "l", "l", "o">>
Suffix == <<",", " ", "w", "o", "r", "l", "d">>
NL == <<"\n">>

\* main.rs:9-16, for the text the buffer is built from
Lines9to16(text) == <<
    LetFrom(9, "s1", text),
    Call(11, "len", "calculate_length", FALSE, Arg("s1")),
    Println(16, <<Lit(<<"T","h","e"," ","l","e","n","g","t","h"," ","o","f"," ","'">>),
                  Arg("s1"), Lit(<<"'"," ","i","s"," ">>), Arg("len"), Lit(NL)>>) >>

\* main.rs:18-26, for the text the buffer is built from
Lines18to26(text) == <<
    LetFrom(18, "s", text),
    Call(24, "", "change", TRUE, Arg("s")),
    Println(26, <<Arg("s"), Lit(NL)>>) >>

\* main.rs:5 with the greeting misspelt ("world" for "World")
MainLine5Lowercase == <<
    Println(5, <<Lit(<<"H","e","l","l","o",","," ","w","o","r","l","d","!">> \o NL)>>) >>

\* main.rs:5
MainLine5 == <<
    Println(5, <<Lit(<<"H","e","l","l","o",","," ","W","o","r","l","d","!">> \o NL)>>) >>

\* main.rs:32-40 with line 38 (`let r2 = &mut s;`) taken out of its comment
MainLines32to40WithLine38 == <<
    LetFrom(32, "s", Lit(Hello)),
    LetRef(34, "r1", TRUE, "s"),
    LetRef(38, "r2", TRUE, "s"),
    Println(40, <<Arg("r1"), Lit(NL)>>) >>

\* main.rs:32-40
MainLines32to40 == <<
    LetFrom(32, "s", Lit(Hello)),
    LetRef(34, "r1", TRUE, "s"),
    Println(40, <<Arg("r1"), Lit(NL)>>) >>

\* main.rs:46-56
MainLines46to56 == <<
    LetFrom(46, "s", Lit(Hello)),
    BlockOpen(48),
    LetRef(49, "r1", TRUE, "s"),
    Println(50, <<Arg("r1"), Lit(NL)>>),
    BlockClose(51),
    LetRef(55, "r2", TRUE, "s"),
    Println(56, <<Arg("r2"), Lit(NL)>>) >>

\* main.rs:59-76 with the buffer changed before the shared views are taken
MainLines59to76Changed == <<
    LetFrom(59, "s", Lit(Hello)),
    Call(60, "", "change", TRUE, Arg("s")),
    LetRef(61, "r1", FALSE, "s"),
    LetRef(62, "r2", FALSE, "s"),
    Println(70, <<Lit(<<"r","1","=">>), Arg("r1"),
                  Lit(<<" ","a","n","d"," ","r","2","=">>), Arg("r2"), Lit(NL)>>),
    LetRef(75, "r3", TRUE, "s"),
    Println(76, <<Lit(<<"r","3","=">>), Arg("r3"), Lit(NL)>>) >>

\* main.rs:59-76
MainLines59to76 == <<
    LetFrom(59, "s", Lit(Hello)),
    LetRef(61, "r1", FALSE, "s"),
    LetRef(62, "r2", FALSE, "s"),
    Println(70, <<Lit(<<"r","1","=">>), Arg("r1"),
                  Lit(<<" ","a","n","d"," ","r","2","=">>), Arg("r2"), Lit(NL)>>),
    LetRef(75, "r3", TRUE, "s"),
    Println(76, <<Lit(<<"r","3","=">>), Arg("r3"), Lit(NL)>>) >>

\* main.rs:85-87
MainLines85to87 == <<
    Call(85, "reference_to_something", "no_dangle", FALSE, NoOperand),
    Println(87, <<Lit(<<"r","e","f","e","r","e","n","c","e","_","t","o","_",
                        "s","o","m","e","t","h","i","n","g","=">>),
                  Arg("reference_to_something"), Lit(NL)>>) >>

\* fn main()
main == [params |-> <<>>,
         body |-> MainLine5 \o Lines9to16(Lit(Hello)) \o Lines18to26(Lit(Hello))
                  \o MainLines32to40
                  \o MainLines46to56 \o MainLines59to76 \o MainLines85to87]

\* fn calculate_length(s: &String) -> usize
calculate_length == [params |-> <<"s">>, body |-> <<TailLen(91, "s")>>]

\* fn change(some_string: &mut String)
change == [params |-> <<"some_string">>,
           body |-> <<PushStr(106, "some_string", Lit(Suffix))>>]

\* the commented-out fn dangle() -> &String (main.rs:109-116)
dangle == [params |-> <<>>,
           body |-> <<LetFrom(110, "s", Lit(Hello)), TailRef(115, "s")>>]

\* fn no_dangle() -> String
no_dangle == [params |-> <<>>,
              body |-> <<LetFrom(121, "s", Lit(Hello)), TailMove(124, "s")>>]

\* main.rs:9-16 run on a text x given by the caller instead of "Hello"
length_of == [params |-> <<"x">>, body |-> Lines9to16(Arg("x"))]

\* main.rs:18-26 run on a text x given by the caller instead of "Hello"
changed == [params |-> <<"x">>, body |-> Lines18to26(Arg("x"))]

Fn(name) ==
    CASE name = "main" -> main
      [] name = "calculate_length" -> calculate_length
      [] name = "change" -> change
      [] name = "no_dangle" -> no_dangle
      [] name = "length_of" -> length_of
      [] name = "changed" -> changed

Body(name) == Fn(name).body

Fns == {"main", "calculate_length", "change", "no_dangle", "length_of", "changed"}

(***************************************************************************)
(* Scopes and live ranges, computed from the program text                  *)
(***************************************************************************)
\* a binding lives in a slot of its frame: statement j declares slot j,
\* the i-th parameter is slot 1 - i
Slots(fn) == (1 - Len(Fn(fn).params))..Len(Body(fn))

\* block nesting depth right after statement i
DepthAfter(fn, i) ==
    Cardinality({m \in 1..i : Body(fn)[m].op = "open"})
      - Cardinality({m \in 1..i : Body(fn)[m].op = "close"})

\* the slots named n that statement j can see: parameters, and earlier
\* `let`s whose block has not been closed before j
Decls(fn, j, n) ==
    {1 - i : i \in {i \in 1..Len(Fn(fn).params) : Fn(fn).params[i] = n}}
    \cup {k \in 1..(j - 1) :
            /\ Body(fn)[k].dst = n
            /\ \A m \in k..(j - 1) : DepthAfter(fn, m) >= DepthAfter(fn, k)}

\* shadowing: a name means its latest visible declaration
Resolve(fn, j, n) == Max(Decls(fn, j, n))

\* the names a statement reads or writes through
Uses(stmt) ==
    (IF stmt.src.k = "arg" THEN {stmt.src.v} ELSE {})
    \cup {stmt.fmt[i].v : i \in {i \in 1..Len(stmt.fmt) : stmt.fmt[i].k = "arg"}}

\* a variant in which a slot stays in use up to the last statement of its
\* function
LastUseAtEndOfFunction(fn, k) == Len(Body(fn))

\* the last statement that uses slot k (k itself when it is never used)
LastUse(fn, k) ==
    Max({k} \cup {j \in 1..Len(Body(fn)) :
                    \E n \in Uses(Body(fn)[j]) : Resolve(fn, j, n) = k})

\* both, tabulated once for every function
LastUseOf == [fn \in Fns |-> [k \in Slots(fn) |-> LastUse(fn, k)]]
SlotOf == [fn \in Fns |-> [j \in 1..Len(Body(fn)) |->
              [n \in Uses(Body(fn)[j]) |-> Resolve(fn, j, n)]]]

(***************************************************************************)
(* State                                                                   *)
(***************************************************************************)
VARIABLES
    stack,      \* call stack: frames [fn, pc, step, env, args, ret]; <<>> after exit
    heap,       \* allocator: address -> [used, data]
    linebuf,    \* bytes held back by the line buffer of stdout
    out         \* bytes written to the standard output stream so far

vars == <<stack, heap, linebuf, out>>

Addrs == 1..HeapSize

\* values held by slots
Uninit  == [tag |-> "uninit"]
Expired == [tag |-> "expired"]     \* a reference past its last use
Moved   == [tag |-> "moved"]       \* a binding whose value was moved out
Dropped == [tag |-> "dropped"]     \* a binding whose scope has ended
Unit    == [tag |-> "unit"]
String(ptr, len, cap) == [tag |-> "String", ptr |-> ptr, len |-> len, cap |-> cap]
Ref(mut, frame, slot) == [tag |-> "ref", mut |-> mut, frame |-> frame, slot |-> slot]
Usize(n) == [tag |-> "usize", n |-> n]
Str(chars) == [tag |-> "str", chars |-> chars]

NewFrame(fn, arg) ==
    [fn |-> fn, pc |-> 1, step |-> 0,
     env |-> [k \in Slots(fn) |-> IF k = 0 THEN arg ELSE Uninit],
     args |-> <<>>, ret |-> Unit]

FreeBlock == [used |-> FALSE, data |-> <<>>]

Running == stack # <<>>
Depth == Len(stack)
Top == stack[Depth]
AtStmt == Running /\ Top.pc <= Len(Body(Top.fn))
Cur == Body(Top.fn)[Top.pc]
\* the slot a name of the current statement stands for
Slot(n) == SlotOf[Top.fn][Top.pc][n]

\* the value a reference chain ends in (a dangling link ends the chain)
RECURSIVE Deref(_, _)
Deref(st, v) ==
    IF v.tag # "ref" THEN v
    ELSE IF v.frame > Len(st) THEN Dropped
    ELSE Deref(st, st[v.frame].env[v.slot])

\* the text of a String: the first len bytes of its heap block
Bytes(hp, v) == IF v.cap = 0 THEN <<>> ELSE SubSeq(hp[v.ptr].data, 1, v.len)

\* the statement of frame f is complete: go to the next one; references
\* whose last use is behind end here
Finish(f) ==
    [f EXCEPT !.pc = @ + 1, !.step = 0,
              !.env = [k \in DOMAIN @ |->
                         IF /\ @[k].tag = "ref"
                            /\ k # f.pc
                            /\ LastUseOf[f.fn][k] <= f.pc
                         THEN Expired ELSE @[k]]]

SetTop(f) == [stack EXCEPT ![Depth] = f]

(***************************************************************************)
(* Statements                                                              *)
(***************************************************************************)
\* let dst = String::from(text): a block of exactly the text's size is
\* allocated (none for the empty text) and the bytes are copied into it
StringFrom ==
    /\ AtStmt /\ Cur.op = "let_from"
    /\ LET bytes == IF Cur.src.k = "lit" THEN Utf8Str(Cur.src.v)
                    ELSE Utf8Str(Top.env[Slot(Cur.src.v)].chars)
       IN IF bytes = <<>>
          THEN /\ heap' = heap
               /\ stack' = SetTop(Finish([Top EXCEPT !.env[Top.pc] = String(0, 0, 0)]))
          ELSE \E a \in {a \in Addrs : ~heap[a].used} :
               /\ heap' = [heap EXCEPT ![a] = [used |-> TRUE, data |-> bytes]]
               /\ stack' = SetTop(Finish([Top EXCEPT !.env[Top.pc] =
                                            String(a, Len(bytes), Len(bytes))]))
    /\ UNCHANGED <<linebuf, out>>

\* let dst = &src;  let dst = &mut src;
Borrow ==
    /\ AtStmt /\ Cur.op = "let_ref"
    /\ stack' = SetTop(Finish([Top EXCEPT !.env[Top.pc] =
                                 Ref(Cur.mut, Depth, Slot(Cur.src.v))]))
    /\ UNCHANGED <<heap, linebuf, out>>

\* {
EnterBlock ==
    /\ AtStmt /\ Cur.op = "open"
    /\ stack' = SetTop(Finish(Top))
    /\ UNCHANGED <<heap, linebuf, out>>

\* the slots declared in the block that statement j closes
BlockSlots(fn, j) ==
    {k \in 1..(j - 1) :
        /\ Body(fn)[k].dst # ""
        /\ DepthAfter(fn, k) > DepthAfter(fn, j)
        /\ \A m \in k..(j - 1) : DepthAfter(fn, m) >= DepthAfter(fn, k)}

\* }: the bindings of the block go out of scope; a String among them is
\* dropped and its block freed
LeaveBlock ==
    /\ AtStmt /\ Cur.op = "close"
    /\ LET gone == BlockSlots(Top.fn, Top.pc)
           freed == {Top.env[k].ptr : k \in {k \in gone : /\ Top.env[k].tag = "String"
                                                           /\ Top.env[k].cap > 0}}
       IN /\ heap' = [a \in Addrs |-> IF a \in freed THEN FreeBlock ELSE heap[a]]
          /\ stack' = SetTop(Finish([Top EXCEPT !.env =
                          [k \in DOMAIN @ |-> IF k \in gone THEN Dropped ELSE @[k]]]))
    /\ UNCHANGED <<linebuf, out>>

\* a variant of the call that passes the String itself: ownership moves
\* into the callee and the caller's binding is left moved-out
CallFnByValue ==
    /\ AtStmt /\ Cur.op = "call" /\ Top.step = 0
    /\ LET k == IF Cur.src.k = "arg" THEN Slot(Cur.src.v) ELSE 0
           arg == IF Cur.src.k = "arg" THEN Top.env[k] ELSE Unit
           left == IF Cur.src.k = "arg" THEN [Top EXCEPT !.env[k] = Moved] ELSE Top
       IN stack' = Append(SetTop([left EXCEPT !.step = 1]), NewFrame(Cur.fn, arg))
    /\ UNCHANGED <<heap, linebuf, out>>

\* fn(&src) / fn(&mut src) / fn(): the argument is evaluated and control
\* enters the callee; the caller waits in its call statement
CallFn ==
    /\ AtStmt /\ Cur.op = "call" /\ Top.step = 0
    /\ LET arg == IF Cur.src.k = "arg"
                  THEN Ref(Cur.mut, Depth, Slot(Cur.src.v)) ELSE Unit
       IN stack' = Append(SetTop([Top EXCEPT !.step = 1]), NewFrame(Cur.fn, arg))
    /\ UNCHANGED <<heap, linebuf, out>>

\* a variant of s.len() that counts characters instead of bytes
StrLenChars ==
    /\ AtStmt /\ Cur.op = "tail_len"
    /\ LET v == Deref(stack, Top.env[Slot(Cur.src.v)])
       IN stack' = SetTop(Finish([Top EXCEPT !.ret = Usize(CharCount(Bytes(heap, v)))]))
    /\ UNCHANGED <<heap, linebuf, out>>

\* s.len(): the len field of the String behind the reference
StrLen ==
    /\ AtStmt /\ Cur.op = "tail_len"
    /\ LET v == Deref(stack, Top.env[Slot(Cur.src.v)])
       IN stack' = SetTop(Finish([Top EXCEPT !.ret = Usize(v.len)]))
    /\ UNCHANGED <<heap, linebuf, out>>

\* capacity after growing a block of capacity cap to hold need bytes
GrownCap(cap, need) == Max({2 * cap, need, 8})

\* a variant of push_str that appends to a copy of the String and leaves
\* the String behind the reference as it was
PushStrToCopy(st, hp, target, v, a, bytes) ==
    /\ heap' = [hp EXCEPT ![a] = [used |-> TRUE, data |-> Bytes(hp, v) \o bytes]]
    /\ stack' = [st EXCEPT ![Len(st)] = Finish(@)]

\* push_str writes through the reference: the block at address a (the old
\* block, or a new one the bytes were moved to) now holds the text followed
\* by bytes, and the String in the owner's slot is updated
PushStrInPlace(st, hp, target, v, a, bytes) ==
    LET need == v.len + Len(bytes)
        cap  == IF need <= v.cap THEN v.cap ELSE GrownCap(v.cap, need)
        hp1  == IF v.cap > 0 THEN [hp EXCEPT ![v.ptr] = FreeBlock] ELSE hp
    IN /\ heap' = [hp1 EXCEPT ![a] = [used |-> TRUE, data |-> Bytes(hp, v) \o bytes]]
       /\ stack' = [[st EXCEPT ![target.frame].env[target.slot] = String(a, need, cap)]
                       EXCEPT ![Len(st)] = Finish(@)]

\* some_string.push_str(text): room is reserved (growing the block, which
\* may move it), then the bytes are appended
PushStrStep ==
    /\ AtStmt /\ Cur.op = "push_str"
    /\ LET target == Top.env[Slot(Cur.src.v)]
           v      == stack[target.frame].env[target.slot]
           bytes  == Utf8Str(Cur.fmt[1].v)
           fits   == v.len + Len(bytes) <= v.cap
       IN \E a \in (IF v.cap > 0 THEN {v.ptr} ELSE {})
                   \cup (IF fits THEN {} ELSE {a \in Addrs : ~heap[a].used}) :
            PushStrInPlace(stack, heap, target, v, a, bytes)
    /\ UNCHANGED <<linebuf, out>>

\* a variant of the tail expression `s` that copies the String triple and
\* leaves the local binding in place
TailValueCopy ==
    /\ AtStmt /\ Cur.op \in {"tail_move", "tail_ref"}
    /\ LET k == Slot(Cur.src.v)
       IN stack' = SetTop(Finish(
            IF Cur.op = "tail_move"
            THEN [Top EXCEPT !.ret = Top.env[k]]
            ELSE [Top EXCEPT !.ret = Ref(FALSE, Depth, k)]))
    /\ UNCHANGED <<heap, linebuf, out>>

\* tail expression `s`: the String is moved into the return slot
\* tail expression `&s`: a reference to the local is put there
TailValue ==
    /\ AtStmt /\ Cur.op \in {"tail_move", "tail_ref"}
    /\ LET k == Slot(Cur.src.v)
       IN stack' = SetTop(Finish(
            IF Cur.op = "tail_move"
            THEN [Top EXCEPT !.ret = Top.env[k], !.env[k] = Moved]
            ELSE [Top EXCEPT !.ret = Ref(FALSE, Depth, k)]))
    /\ UNCHANGED <<heap, linebuf, out>>

(***************************************************************************)
(* println!                                                                *)
(***************************************************************************)
\* the macro takes a shared reference to each `{}` argument
FormatArgs ==
    /\ AtStmt /\ Cur.op = "println" /\ Top.step = 0
    /\ stack' = SetTop([Top EXCEPT
          !.step = 1,
          !.args = [i \in 1..Len(Cur.fmt) |->
                      IF Cur.fmt[i].k = "arg"
                      THEN Ref(FALSE, Depth, Slot(Cur.fmt[i].v)) ELSE Unit]])
    /\ UNCHANGED <<heap, linebuf, out>>

\* what `{}` can show for a value: the text of a String, the digits of an
\* integer; reading through a dangling reference can show anything
Display(st, hp, v) ==
    LET d == Deref(st, v)
    IN CASE d.tag = "String" -> {Bytes(hp, d)}
         [] d.tag = "usize"  -> {Decimal(d.n)}
         [] OTHER            -> {<<>>, <<0>>}

\* index of the last newline of bytes, 0 if there is none
LastNewline(bytes) == Max({0} \cup {i \in 1..Len(bytes) : bytes[i] = 10})

\* stdout is line buffered: a write that contains a newline sends everything
\* up to the last newline to the stream, the rest is held back
WritePiece ==
    /\ AtStmt /\ Cur.op = "println" /\ Top.step \in 1..Len(Cur.fmt)
    /\ \E bytes \in (IF Cur.fmt[Top.step].k = "lit"
                     THEN {Utf8Str(Cur.fmt[Top.step].v)}
                     ELSE Display(stack, heap, Top.args[Top.step])) :
         LET n == LastNewline(bytes)
         IN /\ out' = IF n = 0 THEN out ELSE out \o linebuf \o SubSeq(bytes, 1, n)
            /\ linebuf' = IF n = 0 THEN linebuf \o bytes
                          ELSE SubSeq(bytes, n + 1, Len(bytes))
    /\ stack' = SetTop([Top EXCEPT !.step = @ + 1])
    /\ UNCHANGED heap

\* end of the println! statement: its argument references are gone
PrintlnEnd ==
    /\ AtStmt /\ Cur.op = "println" /\ Top.step = Len(Cur.fmt) + 1
    /\ stack' = SetTop(Finish([Top EXCEPT !.args = <<>>]))
    /\ UNCHANGED <<heap, linebuf, out>>

(***************************************************************************)
(* End of a function                                                       *)
(***************************************************************************)
AtEnd == Running /\ Top.pc = Len(Body(Top.fn)) + 1
Owned(f) == {k \in DOMAIN f.env : f.env[k].tag = "String"}

\* the locals are dropped in reverse order of declaration; dropping a
\* String frees its block
DropLocal ==
    /\ AtEnd /\ Owned(Top) # {}
    /\ LET k == Max(Owned(Top))
           v == Top.env[k]
       IN /\ heap' = IF v.cap > 0 THEN [heap EXCEPT ![v.ptr] = FreeBlock] ELSE heap
          /\ stack' = SetTop([Top EXCEPT !.env[k] = Dropped])
    /\ UNCHANGED <<linebuf, out>>

\* a variant of the return that leaves the caller at its call statement
ReturnToCall ==
    /\ AtEnd /\ Owned(Top) = {} /\ Depth > 1
    /\ LET caller == stack[Depth - 1]
           dst    == Body(caller.fn)[caller.pc].dst
           bound  == IF dst = "" THEN caller
                     ELSE [caller EXCEPT !.env[caller.pc] = Top.ret]
       IN stack' = Append(SubSeq(stack, 1, Depth - 2), [bound EXCEPT !.step = 0])
    /\ UNCHANGED <<heap, linebuf, out>>

\* return to the caller: the frame is popped and the value of the tail
\* expression is bound in the caller, whose call statement is complete
Return ==
    /\ AtEnd /\ Owned(Top) = {} /\ Depth > 1
    /\ LET caller == stack[Depth - 1]
           dst    == Body(caller.fn)[caller.pc].dst
           bound  == IF dst = "" THEN caller
                     ELSE [caller EXCEPT !.env[caller.pc] = Top.ret]
       IN stack' = Append(SubSeq(stack, 1, Depth - 2), Finish(bound))
    /\ UNCHANGED <<heap, linebuf, out>>

\* main returns: the process exits, flushing what stdout still holds
Exit ==
    /\ AtEnd /\ Owned(Top) = {} /\ Depth = 1
    /\ stack' = <<>>
    /\ out' = out \o linebuf
    /\ linebuf' = <<>>
    /\ UNCHANGED heap

(***************************************************************************)
(* Specifications                                                          *)
(***************************************************************************)
\* one run of the program
Next ==
    \/ StringFrom \/ Borrow \/ EnterBlock \/ LeaveBlock
    \/ CallFn \/ StrLen \/ PushStrStep \/ TailValue
    \/ FormatArgs \/ WritePiece \/ PrintlnEnd
    \/ DropLocal \/ Return \/ Exit

Start(fn, arg) ==
    /\ stack = <<NewFrame(fn, arg)>>
    /\ heap = [a \in Addrs |-> FreeBlock]
    /\ linebuf = <<>>
    /\ out = <<>>

Init == Start("main", Unit)
Spec == Init /\ [][Next]_vars

\* the texts tried as inputs: all texts of at most MaxLen characters over a
\* one-, a two- and a three-byte character, and "Hello"
Alphabet == {"o", "é", "€"}
Texts == {Hello} \cup UNION {[1..n -> Alphabet] : n \in 0..MaxLen}

\* lines 9-16 and lines 18-26 of main on every input text
InitFn == \E fn \in {"length_of", "changed"} : \E x \in Texts : Start(fn, Str(x))
NextFn ==
    \/ StringFrom \/ CallFn \/ StrLen \/ PushStrStep
    \/ FormatArgs \/ WritePiece \/ PrintlnEnd
    \/ DropLocal \/ Return \/ Exit
SpecFn == InitFn /\ [][NextFn]_vars

\* the run is liveness-checked under weak fairness of the only process:
\* the program is a single thread that is never suspended
SpecLive == Init /\ [][Next]_vars /\ WF_vars(Next)

(***************************************************************************)
(* Observations used by the properties                                     *)
(***************************************************************************)
Done == stack = <<>>
\* the slot of main declared by the statement of the given source line
At(line) == CHOOSE j \in 1..Len(main.body) : main.body[j].line = line
\* the frame of fn that is executing, if it is on top of the stack
In(fn) == Running /\ Top.fn = fn

\* everything that can hold a value: slots, println! temporaries, return slots
Holders ==
    UNION {{<<i, "env", k>> : k \in DOMAIN stack[i].env}
           \cup {<<i, "args", k>> : k \in DOMAIN stack[i].args}
           \cup {<<i, "ret", 0>>} : i \in 1..Depth}
Held(h) ==
    CASE h[2] = "env"  -> stack[h[1]].env[h[3]]
      [] h[2] = "args" -> stack[h[1]].args[h[3]]
      [] h[2] = "ret"  -> stack[h[1]].ret
\* the active views: references between creation and last use
Views == {h \in Holders : Held(h).tag = "ref"}
\* the buffers: slots that own a String
Buffers == {h \in Holders : Held(h).tag = "String"}
\* the active views (exclusive: mut = TRUE, shared: mut = FALSE) of buffer b
ViewsOf(b, mut) ==
    {h \in Views : /\ b[2] = "env" /\ Held(h).frame = b[1] /\ Held(h).slot = b[3]
                   /\ Held(h).mut = mut}
UsedBlocks == {a \in Addrs : heap[a].used}
\* the text of the String in slot k of frame i
TextOf(i, k) == Bytes(heap, stack[i].env[k])
IsPrefix(p, q) == Len(p) <= Len(q) /\ p = SubSeq(q, 1, Len(p))
RECURSIVE Concat(_)
Concat(seqs) == IF seqs = <<>> THEN <<>> ELSE Head(seqs) \o Concat(Tail(seqs))

(***************************************************************************)
(* C1                                                                      *)
(***************************************************************************)
ExpectedLines == <<
    <<"H","e","l","l","o",","," ","W","o","r","l","d","!">>,
    <<"T","h","e"," ","l","e","n","g","t","h"," ","o","f"," ","'","H","e","l","l","o","'"," ","i","s"," ","5">>,
    <<"H","e","l","l","o",","," ","w","o","r","l","d">>,
    <<"H","e","l","l","o">>,
    <<"H","e","l","l","o">>,
    <<"H","e","l","l","o">>,
    <<"r","1","=","H","e","l","l","o"," ","a","n","d"," ","r","2","=","H","e","l","l","o">>,
    <<"r","3","=","H","e","l","l","o">>,
    <<"r","e","f","e","r","e","n","c","e","_","t","o","_","s","o","m","e","t","h","i","n","g","=","H","e","l","l","o">> >>
ExpectedOutput == Concat([i \in 1..Len(ExpectedLines) |-> Utf8Str(ExpectedLines[i] \o NL)])

\* C1: what has reached standard output is at every moment a prefix of the
\* nine expected lines, and when main has exited it is exactly those nine
\* lines, each ended by a newline, with nothing before, between or after.
C1_Output ==
    /\ IsPrefix(out \o linebuf, ExpectedOutput)
    /\ Done => (out = ExpectedOutput /\ Len(ExpectedLines) = 9)

C1_Witness == Done /\ Len(out) = Len(ExpectedOutput) /\ linebuf = <<>>

(***************************************************************************)
(* C2, C3: calculate_length and change on every input text                 *)
(***************************************************************************)
\* the run of lines 9-16 on x has bound `len` (slot 2; x is slot 0, s1 slot 1)
LenBound == Running /\ stack[1].fn = "length_of" /\ stack[1].env[2].tag = "usize"
InputText == stack[1].env[0].chars
IsAscii(chars) == \A i \in 1..Len(chars) : CodePoint(chars[i]) < 128

\* C2 as stated: the result of calculate_length is the number of characters
\* of the buffer's content.
C2_CharacterCount ==
    LenBound => stack[1].env[2].n = Len(InputText)

\* C2, amended: the result of calculate_length is the number of bytes of the
\* UTF-8 encoded content, a non-negative integer; it is the number of
\* characters when every character is ASCII, and it is 5 for "Hello".
C2_ByteLength ==
    LenBound =>
        /\ stack[1].env[2].n = Len(Utf8Str(InputText))
        /\ stack[1].env[2].n \in Nat
        /\ IsAscii(InputText) => stack[1].env[2].n = Len(InputText)
        /\ InputText = Hello => stack[1].env[2].n = 5

C2_Witness == LenBound /\ InputText = Hello /\ stack[1].env[2].n = 5

\* the run of lines 18-26 on x has returned from change (x is slot 0, s is
\* slot 1, the call is statement 2, the println! statement 3)
Changed == Running /\ stack[1].fn = "changed" /\ stack[1].pc = 3

\* C3: after change returns, the owner's buffer holds the text it held before
\* the call followed by ", world" ("Hello" becomes "Hello, world"); no second
\* block exists; and what the owner s then prints is that text.
C3_ChangeAppends ==
    Changed =>
        /\ stack[1].env[1].tag = "String"
        /\ TextOf(1, 1) = Utf8Str(InputText \o Suffix)
        /\ InputText = Hello =>
             TextOf(1, 1) = Utf8Str(<<"H","e","l","l","o",","," ","w","o","r","l","d">>)
        /\ UsedBlocks = {stack[1].env[1].ptr}
        /\ stack[1].step >= 2 => IsPrefix(Utf8Str(InputText \o Suffix), out \o linebuf)

C3_Witness ==
    /\ Changed /\ InputText = Hello /\ stack[1].step = 2
    /\ linebuf = Utf8Str(<<"H","e","l","l","o",","," ","w","o","r","l","d">>)

(***************************************************************************)
(* C4 .. C10: the run of main                                              *)
(***************************************************************************)
InMain == Running /\ stack[1].fn = "main"
MainPc == stack[1].pc
\* the binding declared at the given line is in scope and main has not
\* started to drop its locals
Alive(line) == InMain /\ MainPc > At(line) /\ MainPc <= Len(main.body)

\* the call of line 11 is about to be made or is in progress
DuringLengthCall ==
    \/ In("calculate_length")
    \/ In("main") /\ AtStmt /\ Cur.line = 11

\* C4: calculate_length has no side effects: no step of the call changes the
\* heap, the output or the caller's s1; from the call on, s1 still owns its
\* allocated block with the text "Hello", and the owner reads "Hello" from
\* it in the println! of line 16.
C4_LengthHasNoEffect ==
    /\ [](Alive(9) =>
            /\ stack[1].env[At(9)].tag = "String"
            /\ heap[stack[1].env[At(9)].ptr].used
            /\ TextOf(1, At(9)) = Utf8Str(Hello))
    /\ []((InMain /\ MainPc = At(16) /\ stack[1].step = 3) =>
            linebuf = Utf8Str(<<"T","h","e"," ","l","e","n","g","t","h"," ","o","f"," ","'">>
                              \o Hello))
    /\ [][DuringLengthCall =>
            /\ heap' = heap /\ out' = out /\ linebuf' = linebuf
            /\ stack'[1].env[At(9)] = stack[1].env[At(9)]]_vars

C4_Witness ==
    /\ InMain /\ MainPc = At(16) /\ stack[1].step = 3
    /\ stack[1].env[At(11)] = Usize(5)
    /\ TextOf(1, At(9)) = Utf8Str(Hello)

\* C5: from its creation until the exclusive view r3 is created the buffer of
\* line 59 holds "Hello"; r1 and r2, read by the println! of line 70 before r3
\* exists, both show exactly that text.
C5_SharedViewsAgree ==
    (InMain /\ MainPc > At(59) /\ MainPc <= At(75)) =>
        /\ TextOf(1, At(59)) = Utf8Str(Hello)
        /\ (MainPc = At(70) /\ stack[1].step >= 1) =>
             /\ Display(stack, heap, stack[1].args[2]) = {Utf8Str(Hello)}
             /\ Display(stack, heap, stack[1].args[4]) = Display(stack, heap, stack[1].args[2])
             /\ stack[1].env[At(61)] = Ref(FALSE, 1, At(59))
             /\ stack[1].env[At(62)] = Ref(FALSE, 1, At(59))
             /\ stack[1].env[At(75)].tag = "uninit"

C5_Witness ==
    /\ InMain /\ MainPc = At(70) /\ stack[1].step = 5
    /\ Display(stack, heap, stack[1].args[2]) = {Utf8Str(Hello)}

\* the holders that own the block at address a
OwnersOf(a) == {h \in Buffers : Held(h).cap > 0 /\ Held(h).ptr = a}

\* C6: every allocated block is owned by exactly one place at every moment;
\* once no_dangle has evaluated its tail expression its local s is moved-out
\* and the String is in its return slot; the return frees nothing; afterwards
\* reference_to_something owns an allocated block holding "Hello".
C6_MoveOut ==
    /\ [](\A a \in UsedBlocks : Cardinality(OwnersOf(a)) = 1)
    /\ []((In("no_dangle") /\ AtEnd) =>
            /\ Top.env[1] = Moved
            /\ Top.ret.tag = "String"
            /\ heap[Top.ret.ptr].used
            /\ Bytes(heap, Top.ret) = Utf8Str(Hello))
    /\ [](Alive(85) =>
            /\ stack[1].env[At(85)].tag = "String"
            /\ heap[stack[1].env[At(85)].ptr].used
            /\ TextOf(1, At(85)) = Utf8Str(Hello))
    /\ [][In("no_dangle") /\ AtEnd => heap' = heap]_vars

C6_Witness ==
    /\ Alive(85) /\ MainPc = At(87)
    /\ TextOf(1, At(85)) = Utf8Str(Hello)
    /\ OwnersOf(stack[1].env[At(85)].ptr) = {<<1, "env", At(85)>>}

\* the lines that hold the forbidden accesses, all inside comments
ForbiddenLines == {38, 68, 83}
Min(a, b) == IF a <= b THEN a ELSE b

\* C7: every run of main reaches the exit; within a frame the statements are
\* taken one after the other in textual order, never skipped or repeated;
\* until the exit some step is always possible; no statement of a forbidden
\* line is ever executed.
C7_RunsToCompletion ==
    /\ <>Done
    /\ [](Running => ENABLED Next)
    /\ [](AtStmt => Cur.line \notin ForbiddenLines)
    /\ [][\A i \in 1..Min(Len(stack), Len(stack')) :
            /\ stack'[i].fn = stack[i].fn
            /\ stack'[i].pc \in {stack[i].pc, stack[i].pc + 1}]_vars

C7_Witness == Done /\ out = ExpectedOutput /\ UsedBlocks = {}

\* C8 (I1): no buffer has two active exclusive views; the exclusive view r1
\* of line 49 has ended when the exclusive view r2 of line 55 exists.
C8_OneExclusiveView ==
    /\ \A b \in Buffers : Cardinality(ViewsOf(b, TRUE)) <= 1
    /\ (InMain /\ stack[1].env[At(55)].tag = "ref") => stack[1].env[At(49)].tag # "ref"

C8_Witness ==
    /\ InMain /\ stack[1].env[At(55)] = Ref(TRUE, 1, At(46))
    /\ ViewsOf(<<1, "env", At(46)>>, TRUE) = {<<1, "env", At(55)>>}

\* C9 (I2): no buffer has an active exclusive view and an active shared view
\* at the same time; the shared views r1 and r2 of lines 61 and 62 have ended
\* when the exclusive view r3 of line 75 exists.
C9_ExclusiveOrShared ==
    /\ \A b \in Buffers : ViewsOf(b, TRUE) = {} \/ ViewsOf(b, FALSE) = {}
    /\ (InMain /\ stack[1].env[At(75)].tag = "ref") =>
         /\ stack[1].env[At(61)].tag # "ref"
         /\ stack[1].env[At(62)].tag # "ref"

C9_Witness ==
    /\ InMain /\ stack[1].env[At(75)] = Ref(TRUE, 1, At(59))
    /\ ViewsOf(<<1, "env", At(59)>>, FALSE) = {}

\* the value a view points at
Target(h) ==
    IF Held(h).frame > Depth THEN Dropped
    ELSE stack[Held(h).frame].env[Held(h).slot]

\* C10 (I3): every active view points at a slot of a frame that still exists
\* and that holds a value; every buffer's block is allocated; no return slot
\* holds a view; and a step that drops or moves a buffer finds no active
\* view of it.
C10_NoDanglingView ==
    /\ [](\A h \in Views : Target(h).tag \in {"String", "ref", "usize"})
    /\ [](\A b \in Buffers : Held(b).cap > 0 => heap[Held(b).ptr].used)
    /\ [](\A i \in 1..Depth : stack[i].ret.tag # "ref")
    /\ [][\A b \in Buffers :
            (/\ b[2] = "env"
             /\ \/ b[1] > Len(stack')
                \/ stack'[b[1]].env[b[3]].tag # "String")
            => ViewsOf(b, TRUE) \cup ViewsOf(b, FALSE) = {}]_vars

C10_Witness ==
    /\ InMain /\ MainPc = At(87) /\ stack[1].step = 1
    /\ Target(<<1, "args", 2>>).tag = "String"
    /\ heap[Target(<<1, "args", 2>>).ptr].used

====
